---- MODULE Spec2Model ----
(***************************************************************************)
(* puresnmp.priv.des: the DES privacy plugin of SNMPv3 (RFC 3414, 8.1.1).  *)
(*                                                                         *)
(* Bytes are the integers 0..255 and a bytes object is a sequence of them. *)
(* The salt generator counts up to 0xFFFFFFFF, which is beyond the range   *)
(* of a TLC integer (2^31 - 1), so a salt number v is kept as two 16-bit   *)
(* limbs <<hi, lo>> with v = hi * 2^16 + lo; nothing is lost of its width. *)
(***************************************************************************)
EXTENDS Integers, Sequences, FiniteSets, TLC

VARIABLES
    SALTPOT,    \* the module-level generator: [started, salt]
    seed,       \* the value randint() gives the generator (line 49)
    draws,      \* history: every value next(SALTPOT) has returned, in order
    used,       \* history: local_salt (line 76) of every encrypt_data call
    last,       \* the most recent completed call: arguments, locals, result
    rel,        \* history: how the last call's arguments relate to the call before
    ncalls,     \* number of completed calls
    held,       \* history: one earlier encrypt_data result, kept for comparison
    pc,         \* per thread: position inside encrypt_data
    loc,        \* per thread: the locals of its encrypt_data frame
    pad_in,     \* pad_packet called on its own: argument
    pad_out,    \*   its return value
    pad_done    \*   whether it has returned

vars == <<SALTPOT, seed, draws, used, last, rel, ncalls, held, pc, loc, pad_in, pad_out, pad_done>>

----------------------------------------------------------------------------
(* Bounds of the model *)

\* calls of encrypt_data / decrypt_data in one run of Spec
MaxCalls == 3
\* draws from the generator in one run of SpecGen
MaxDraws == 24
\* calls of encrypt_data in one run of SpecSalt
MaxSaltCalls == 130
\* longest argument of pad_packet in SpecPad
MaxLen == 17

----------------------------------------------------------------------------
(* Bytes and 32-bit numbers *)

Limb == 2 ^ 16

Min(a, b) == IF a < b THEN a ELSE b

\* a sequence written as a function, as the tuple of its elements
Bytes(f) == SubSeq(f, 1, Len(f))

Bit(n, i) == (n \div (2 ^ i)) % 2

\* a ^ b on two bytes
XorNibble ==
    [a \in 0..15 |-> [b \in 0..15 |->
        LET x(i) == ((Bit(a, i) + Bit(b, i)) % 2) * (2 ^ i)
        IN  x(0) + x(1) + x(2) + x(3)]]

XorByte(a, b) == 16 * XorNibble[a \div 16][b \div 16] + XorNibble[a % 16][b % 16]

\* bytes(a ^ b for a, b in zip(s, t)): zip stops at the shorter argument
XorBytes(s, t) == Bytes([i \in 1..Min(Len(s), Len(t)) |-> XorByte(s[i], t[i])])

\* n & 0xFF for a non-negative int
AndFF(n) == n % 256

\* v & 0xFF for a salt number held as limbs
AndFF32(v) == v[2] % 256

\* n.to_bytes(4, "big") for 0 <= n < 2^31
to_bytes4(n) == <<(n \div (2 ^ 24)) % 256, (n \div (2 ^ 16)) % 256, (n \div (2 ^ 8)) % 256, n % 256>>

\* salt += 1 on limbs (Python ints do not overflow)
Inc32(v) == IF v[2] = Limb - 1 THEN <<v[1] + 1, 0>> ELSE <<v[1], v[2] + 1>>

\* 0xFFFFFFFF
SALT_LIMIT == <<Limb - 1, Limb - 1>>

\* 0
SALT_ZERO == <<0, 0>>

----------------------------------------------------------------------------
(* pad_packet *)

DEFAULT_BLOCK_SIZE == 8

Zeros(n) == Bytes([i \in 1..n |-> 0])

\* variant: pads without looking at the remainder
pad_packet_always(data, block_size) ==
    data \o Zeros(block_size - (Len(data) % block_size))

pad_packet(data, block_size) ==
    LET rest == Len(data) % block_size
    IN  IF rest = 0
        THEN data
        ELSE LET numpad == block_size - rest
             IN  data \o Zeros(numpad)

----------------------------------------------------------------------------
(* reference_saltpot: one next() on the generator.  Before the first next() *)
(* the body has not run; the first next() runs randint and yields its value;*)
(* every later one resumes after the yield: increments, wraps, yields.      *)

\* variant: yields without incrementing
next_no_advance(pot) ==
    [value |-> pot.salt, pot |-> [started |-> TRUE, salt |-> pot.salt]]

\* variant: tests for 0xFFFFFFFF before incrementing
next_wrap_late(pot) ==
    IF ~pot.started
    THEN [value |-> pot.salt, pot |-> [started |-> TRUE, salt |-> pot.salt]]
    ELSE LET s1 == IF pot.salt = SALT_LIMIT THEN SALT_ZERO ELSE Inc32(pot.salt)
         IN  [value |-> s1, pot |-> [started |-> TRUE, salt |-> s1]]

next(pot) ==
    IF ~pot.started
    THEN [value |-> pot.salt, pot |-> [started |-> TRUE, salt |-> pot.salt]]
    ELSE LET s1 == Inc32(pot.salt)
             s2 == IF s1 = SALT_LIMIT THEN SALT_ZERO ELSE s1
         IN  [value |-> s2, pot |-> [started |-> TRUE, salt |-> s2]]

----------------------------------------------------------------------------
(* The two collaborators of the module that are not part of it.            *)

RECURSIVE SumSeq(_)
SumSeq(s) == IF s = <<>> THEN 0 ELSE s[1] + SumSeq(Tail(s))

\* password_to_key(hashlib.md5, 16): a hasher that maps (key, engine_id) to a
\* 16-byte localized key, the same bytes for the same arguments.
Digest(h) == Bytes([i \in 1..16 |-> (h + 29 * i) % 256])

hasher(key, engine_id) == Digest(7 * SumSeq(key) + 13 * SumSeq(engine_id) + 3 * Len(key))

\* The block cipher on one 8-byte block: for each key a permutation of the
\* blocks (here: rotate the bytes by one place and add a keyed offset).
BlockEncrypt(k, b) == Bytes([i \in 1..8 |-> (b[(i % 8) + 1] + k[i] + i) % 256])

BlockDecrypt(k, c) ==
    Bytes([j \in 1..8 |-> LET i == ((j + 6) % 8) + 1 IN (c[i] - k[i] - i) % 256])

RECURSIVE CbcEncrypt(_, _, _)
CbcEncrypt(k, chain, data) ==
    IF data = <<>>
    THEN <<>>
    ELSE LET c == BlockEncrypt(k, XorBytes(SubSeq(data, 1, 8), chain))
         IN  c \o CbcEncrypt(k, c, SubSeq(data, 9, Len(data)))

RECURSIVE CbcDecrypt(_, _, _)
CbcDecrypt(k, chain, data) ==
    IF data = <<>>
    THEN <<>>
    ELSE LET c == SubSeq(data, 1, 8)
         IN  XorBytes(BlockDecrypt(k, c), chain) \o CbcDecrypt(k, c, SubSeq(data, 9, Len(data)))

\* CDES.new(des_key, mode=CDES.MODE_CBC, IV=init_vector): refuses an IV that
\* is not one block long
CDES_new(des_key, init_vector) ==
    [key |-> des_key, iv |-> init_vector,
     err |-> IF Len(init_vector) = 8 THEN "" ELSE "ValueError"]

\* cdes.encrypt(padded)
CDES_encrypt(cdes, padded) == CbcEncrypt(cdes.key, cdes.iv, padded)

\* cdes.decrypt(data)
CDES_decrypt(cdes, data) == CbcDecrypt(cdes.key, cdes.iv, data)

----------------------------------------------------------------------------
(* encrypt_data.  The module global SALTPOT is passed in and handed back.  *)
(* The function is given in two parts, split where another thread can run  *)
(* between its two draws: lines 71-80 (key derivation, first draw, salt,   *)
(* IV) and lines 81-86 (second draw, cipher, padding, return).             *)

\* the 4-byte big-endian encoding of a whole salt number
to_bytes4_32(v) == <<v[1] \div 256, v[1] % 256, v[2] \div 256, v[2] % 256>>

\* variant: the salt holds all 32 bits of engine_boots and local_salt
encrypt_data_salt_unmasked(pot, key, engine_id, engine_boots, engine_time, data) ==
    LET private_privacy_key == hasher(key, engine_id)
        des_key == SubSeq(private_privacy_key, 1, 8)
        pre_iv == SubSeq(private_privacy_key, 9, 16)
        d == next(pot)
        local_salt == d.value
        salt == to_bytes4(engine_boots) \o to_bytes4_32(local_salt)
        init_vector == XorBytes(salt, pre_iv)
    IN  [key |-> key, engine_id |-> engine_id, engine_boots |-> engine_boots,
         engine_time |-> engine_time, data |-> data,
         des_key |-> des_key, pre_iv |-> pre_iv, local_salt |-> local_salt,
         salt |-> salt, init_vector |-> init_vector,
         pot |-> d.pot, drawn |-> <<d.value>>,
         steps |-> <<"password_to_key", "hasher", "next">>]

encrypt_data_salt(pot, key, engine_id, engine_boots, engine_time, data) ==
    LET private_privacy_key == hasher(key, engine_id)
        des_key == SubSeq(private_privacy_key, 1, 8)
        pre_iv == SubSeq(private_privacy_key, 9, 16)
        d == next(pot)
        local_salt == d.value
        salt == to_bytes4(AndFF(engine_boots)) \o to_bytes4(AndFF32(local_salt))
        init_vector == XorBytes(salt, pre_iv)
    IN  [key |-> key, engine_id |-> engine_id, engine_boots |-> engine_boots,
         engine_time |-> engine_time, data |-> data,
         des_key |-> des_key, pre_iv |-> pre_iv, local_salt |-> local_salt,
         salt |-> salt, init_vector |-> init_vector,
         pot |-> d.pot, drawn |-> <<d.value>>,
         steps |-> <<"password_to_key", "hasher", "next">>]

\* variant: no second draw
encrypt_data_cipher_one_draw(pot, frame) ==
    LET cdes == CDES_new(frame.des_key, frame.init_vector)
        padded == pad_packet(frame.data, DEFAULT_BLOCK_SIZE)
        encrypted == CDES_encrypt(cdes, padded)
    IN  [pot |-> pot, out |-> encrypted, salt |-> frame.salt, err |-> "",
         steps |-> frame.steps \o <<"CDES.new", "pad_packet", "encrypt">>,
         local_salt |-> frame.local_salt, init_vector |-> frame.init_vector,
         padded |-> padded, drawn |-> frame.drawn]

encrypt_data_cipher(pot, frame) ==
    LET d == next(pot)
        cdes == CDES_new(frame.des_key, frame.init_vector)
        padded == pad_packet(frame.data, DEFAULT_BLOCK_SIZE)
        encrypted == CDES_encrypt(cdes, padded)
    IN  IF cdes.err # ""
        THEN [pot |-> d.pot, out |-> <<>>, salt |-> <<>>, err |-> cdes.err,
              steps |-> frame.steps \o <<"next", "CDES.new">>,
              local_salt |-> frame.local_salt, init_vector |-> frame.init_vector,
              padded |-> <<>>, drawn |-> frame.drawn \o <<d.value>>]
        ELSE [pot |-> d.pot, out |-> encrypted, salt |-> frame.salt, err |-> "",
              steps |-> frame.steps \o <<"next", "CDES.new", "pad_packet", "encrypt">>,
              local_salt |-> frame.local_salt, init_vector |-> frame.init_vector,
              padded |-> padded, drawn |-> frame.drawn \o <<d.value>>]

encrypt_data(pot, key, engine_id, engine_boots, engine_time, data) ==
    LET frame == encrypt_data_salt(pot, key, engine_id, engine_boots, engine_time, data)
    IN  encrypt_data_cipher(frame.pot, frame)

----------------------------------------------------------------------------
(* decrypt_data *)

SnmpError == "SnmpError"

DecryptRaise(pot, salt, e, steps) ==
    [pot |-> pot, out |-> <<>>, salt |-> salt, err |-> e, steps |-> steps,
     local_salt |-> <<>>, init_vector |-> <<>>, padded |-> <<>>, drawn |-> <<>>]

DecryptReturn(pot, salt, init_vector, decrypted) ==
    [pot |-> pot, out |-> decrypted, salt |-> salt, err |-> "",
     steps |-> <<"password_to_key", "hasher", "CDES.new", "decrypt">>,
     local_salt |-> <<>>, init_vector |-> init_vector, padded |-> <<>>, drawn |-> <<>>]

\* variant: the salt is taken as the IV, without the pre-IV
decrypt_data_salt_as_iv(pot, decrypt_key, engine_id, engine_boots, engine_time, salt, data) ==
    IF Len(data) % 8 # 0
    THEN DecryptRaise(pot, salt, SnmpError, <<>>)
    ELSE LET private_privacy_key == hasher(decrypt_key, engine_id)
             des_key == SubSeq(private_privacy_key, 1, 8)
             cdes == CDES_new(des_key, salt)
         IN  IF cdes.err # ""
             THEN DecryptRaise(pot, salt, cdes.err, <<"password_to_key", "hasher", "CDES.new">>)
             ELSE DecryptReturn(pot, salt, salt, CDES_decrypt(cdes, data))

\* variant: the length is checked after the key is derived
decrypt_data_late_check(pot, decrypt_key, engine_id, engine_boots, engine_time, salt, data) ==
    LET private_privacy_key == hasher(decrypt_key, engine_id)
        des_key == SubSeq(private_privacy_key, 1, 8)
        pre_iv == SubSeq(private_privacy_key, 9, 16)
        init_vector == XorBytes(salt, pre_iv)
        cdes == CDES_new(des_key, init_vector)
    IN  IF Len(data) % 8 # 0
        THEN DecryptRaise(pot, salt, SnmpError, <<"password_to_key", "hasher">>)
        ELSE IF cdes.err # ""
             THEN DecryptRaise(pot, salt, cdes.err, <<"password_to_key", "hasher", "CDES.new">>)
             ELSE DecryptReturn(pot, salt, init_vector, CDES_decrypt(cdes, data))

\* variant: the first half of the salt is rebuilt from engine_boots
decrypt_data_boots_in_iv(pot, decrypt_key, engine_id, engine_boots, engine_time, salt, data) ==
    IF Len(data) % 8 # 0
    THEN DecryptRaise(pot, salt, SnmpError, <<>>)
    ELSE LET private_privacy_key == hasher(decrypt_key, engine_id)
             des_key == SubSeq(private_privacy_key, 1, 8)
             pre_iv == SubSeq(private_privacy_key, 9, 16)
             rebuilt == to_bytes4(AndFF(engine_boots)) \o SubSeq(salt, 5, Len(salt))
             init_vector == XorBytes(rebuilt, pre_iv)
             cdes == CDES_new(des_key, init_vector)
         IN  IF cdes.err # ""
             THEN DecryptRaise(pot, salt, cdes.err, <<"password_to_key", "hasher", "CDES.new">>)
             ELSE DecryptReturn(pot, salt, init_vector, CDES_decrypt(cdes, data))

decrypt_data(pot, decrypt_key, engine_id, engine_boots, engine_time, salt, data) ==
    IF Len(data) % 8 # 0
    THEN DecryptRaise(pot, salt, SnmpError, <<>>)
    ELSE LET private_privacy_key == hasher(decrypt_key, engine_id)
             des_key == SubSeq(private_privacy_key, 1, 8)
             pre_iv == SubSeq(private_privacy_key, 9, 16)
             init_vector == XorBytes(salt, pre_iv)
             cdes == CDES_new(des_key, init_vector)
         IN  IF cdes.err # ""
             THEN DecryptRaise(pot, salt, cdes.err, <<"password_to_key", "hasher", "CDES.new">>)
             ELSE DecryptReturn(pot, salt, init_vector, CDES_decrypt(cdes, data))

----------------------------------------------------------------------------
(* Arguments the callers pass *)

\* b"hello123" followed by b"SNMPv3!!" and one more block
Text == <<104, 101, 108, 108, 111, 49, 50, 51, 83, 78, 77, 80, 118, 51, 33, 33, 48, 130, 1, 0, 2, 1, 3, 48>>

Take(s, n) == SubSeq(s, 1, n)

Keys == {<<107>>, <<1, 2>>}
EngineIds == {<<128, 0, 31>>, <<5>>}
EngineBoots == {1, 258}
EngineTimes == {0, 300}
PlainTexts == {Take(Text, n) : n \in {0, 5, 16}}

\* what decrypt_data may receive from the wire besides real ciphertexts
WireSalt == <<0, 0, 0, 1, 0, 0, 0, 7>>
ShortSalt == <<0, 0, 0, 7>>
WireMessages ==
    {<<WireSalt, <<9, 8, 7, 6, 5>>>>,
     <<WireSalt, <<200, 1, 17, 0, 255, 3, 90, 41>>>>,
     <<ShortSalt, <<200, 1, 17, 0, 255, 3, 90, 41>>>>}

\* randint(1, 0xFFFFFFFF - 1): values around the byte, limb and wrap boundaries
Seeds == {<<0, 1>>, <<0, 254>>, <<Limb - 1, Limb - 3>>, <<Limb - 1, Limb - 2>>}

\* the same, with more of them, where only the generator runs
GenSeeds ==
    Seeds \cup {<<0, 255>>, <<0, Limb - 1>>, <<0, Limb - 2>>, <<1, 0>>,
                <<Limb - 1, Limb - 4>>, <<Limb - 1, Limb - 20>>, <<Limb - 1, 0>>}

Threads == {1, 2}

----------------------------------------------------------------------------
(* State *)

NoCall ==
    [op |-> "none", key |-> <<>>, engine_id |-> <<>>, engine_boots |-> 0,
     engine_time |-> 0, data |-> <<>>, salt |-> <<>>, out |-> <<>>, err |-> "",
     steps |-> <<>>, local_salt |-> <<>>, init_vector |-> <<>>, padded |-> <<>>,
     drawn |-> <<>>]

CallRecord(op, key, engine_id, engine_boots, engine_time, data, r) ==
    [op |-> op, key |-> key, engine_id |-> engine_id, engine_boots |-> engine_boots,
     engine_time |-> engine_time, data |-> data, salt |-> r.salt, out |-> r.out,
     err |-> r.err, steps |-> r.steps, local_salt |-> r.local_salt,
     init_vector |-> r.init_vector, padded |-> r.padded, drawn |-> r.drawn]

NoFrame ==
    [key |-> <<>>, engine_id |-> <<>>, engine_boots |-> 0, engine_time |-> 0,
     data |-> <<>>, des_key |-> <<>>, pre_iv |-> <<>>, local_salt |-> <<>>,
     salt |-> <<>>, init_vector |-> <<>>, pot |-> [started |-> FALSE, salt |-> <<>>],
     drawn |-> <<>>, steps |-> <<>>]

NoHeld == [n |-> 0, engine_boots |-> 0, salt |-> <<>>, local_salt |-> <<>>]

\* how a call's arguments relate to those of the call before it
Relation(before, now) ==
    IF before.op = "none" THEN "first"
    ELSE IF /\ before.op = now.op
            /\ before.key = now.key
            /\ before.engine_id = now.engine_id
            /\ before.data = now.data
            /\ (now.op = "enc" => before.engine_boots = now.engine_boots)
            /\ (now.op = "dec" => before.salt = now.salt)
         THEN "repeat"
    ELSE IF /\ before.op = "enc"
            /\ now.op = "dec"
            /\ before.key = now.key
            /\ before.engine_id = now.engine_id
            /\ before.engine_boots = now.engine_boots
            /\ before.engine_time = now.engine_time
            /\ before.salt = now.salt
            /\ before.out = now.data
         THEN "roundtrip"
    ELSE "other"

Init ==
    /\ seed \in Seeds
    /\ SALTPOT = [started |-> FALSE, salt |-> seed]
    /\ draws = <<>>
    /\ used = <<>>
    /\ last = NoCall
    /\ rel = "first"
    /\ ncalls = 0
    /\ held = NoHeld
    /\ pc = [t \in Threads |-> "idle"]
    /\ loc = [t \in Threads |-> NoFrame]
    /\ pad_in = <<>>
    /\ pad_out = <<>>
    /\ pad_done = FALSE

----------------------------------------------------------------------------
(* One caller: whole calls of encrypt_data and decrypt_data, in any order  *)

EncryptCall(key, engine_id, engine_boots, engine_time, data) ==
    \E r \in {encrypt_data(SALTPOT, key, engine_id, engine_boots, engine_time, data)} :
    \E now \in {CallRecord("enc", key, engine_id, engine_boots, engine_time, data, r)} :
        /\ SALTPOT' = r.pot
        /\ draws' = draws \o r.drawn
        /\ used' = Append(used, r.local_salt)
        /\ last' = now
        /\ rel' = Relation(last, now)
        /\ ncalls' = ncalls + 1
        /\ UNCHANGED <<seed, pc, loc, pad_in, pad_out, pad_done>>

DecryptCall(decrypt_key, engine_id, engine_boots, engine_time, salt, data) ==
    \E r \in {decrypt_data(SALTPOT, decrypt_key, engine_id, engine_boots, engine_time, salt, data)} :
    \E now \in {CallRecord("dec", decrypt_key, engine_id, engine_boots, engine_time, data, r)} :
        /\ SALTPOT' = r.pot
        /\ draws' = draws \o r.drawn
        /\ last' = now
        /\ rel' = Relation(last, now)
        /\ ncalls' = ncalls + 1
        /\ UNCHANGED <<seed, used, pc, loc, pad_in, pad_out, pad_done>>

Encrypt ==
    /\ ncalls < MaxCalls
    /\ \E key \in Keys, engine_id \in EngineIds, engine_boots \in EngineBoots,
          engine_time \in EngineTimes, data \in PlainTexts :
            EncryptCall(key, engine_id, engine_boots, engine_time, data)
    /\ UNCHANGED held

\* what arrives with a message: the previous call's output, or any other bytes
Received ==
    (IF last.op = "enc" THEN {<<last.salt, last.out>>} ELSE {})
        \cup (IF last.op = "dec" THEN {<<last.salt, last.data>>} ELSE {})
        \cup WireMessages

Decrypt ==
    /\ ncalls < MaxCalls
    /\ \E decrypt_key \in Keys, engine_id \in EngineIds, engine_boots \in EngineBoots,
          engine_time \in EngineTimes, msg \in Received :
            DecryptCall(decrypt_key, engine_id, engine_boots, engine_time, msg[1], msg[2])
    /\ UNCHANGED held

Next == Encrypt \/ Decrypt

Spec == Init /\ [][Next]_vars

----------------------------------------------------------------------------
(* The generator alone: next(SALTPOT), again and again *)

InitGen ==
    /\ seed \in GenSeeds
    /\ SALTPOT = [started |-> FALSE, salt |-> seed]
    /\ draws = <<>>
    /\ used = <<>>
    /\ last = NoCall
    /\ rel = "first"
    /\ ncalls = 0
    /\ held = NoHeld
    /\ pc = [t \in Threads |-> "idle"]
    /\ loc = [t \in Threads |-> NoFrame]
    /\ pad_in = <<>>
    /\ pad_out = <<>>
    /\ pad_done = FALSE

Draw ==
    /\ Len(draws) < MaxDraws
    /\ \E d \in {next(SALTPOT)} :
        /\ SALTPOT' = d.pot
        /\ draws' = Append(draws, d.value)
    /\ UNCHANGED <<seed, used, last, rel, ncalls, held, pc, loc, pad_in, pad_out, pad_done>>

NextGen == Draw

SpecGen == InitGen /\ [][NextGen]_vars

----------------------------------------------------------------------------
(* pad_packet alone *)

PadTexts ==
    {Text,
     [i \in 1..Len(Text) |-> 0],
     [i \in 1..Len(Text) |-> 255],
     [i \in 1..Len(Text) |-> IF i % 2 = 0 THEN 0 ELSE i]}

PadInputs == {Take(t, n) : t \in PadTexts, n \in 0..MaxLen}

InitPad ==
    /\ seed \in {<<0, 1>>}
    /\ SALTPOT = [started |-> FALSE, salt |-> seed]
    /\ draws = <<>>
    /\ used = <<>>
    /\ last = NoCall
    /\ rel = "first"
    /\ ncalls = 0
    /\ held = NoHeld
    /\ pc = [t \in Threads |-> "idle"]
    /\ loc = [t \in Threads |-> NoFrame]
    /\ pad_in \in PadInputs
    /\ pad_out = <<>>
    /\ pad_done = FALSE

Pad ==
    /\ ~pad_done
    /\ pad_out' = pad_packet(pad_in, DEFAULT_BLOCK_SIZE)
    /\ pad_done' = TRUE
    /\ UNCHANGED <<SALTPOT, seed, draws, used, last, rel, ncalls, held, pc, loc, pad_in>>

NextPad == Pad

SpecPad == InitPad /\ [][NextPad]_vars

----------------------------------------------------------------------------
(* Many encrypt_data calls in a row, one earlier result kept for comparison *)

SaltKey == <<107>>
SaltEngineId == <<5>>

EncryptKeep ==
    /\ ncalls < MaxSaltCalls
    /\ \E engine_boots \in EngineBoots :
          EncryptCall(SaltKey, SaltEngineId, engine_boots, 0, <<>>)
    /\ \/ UNCHANGED held
       \/ held' = [n |-> ncalls + 1, engine_boots |-> last'.engine_boots,
                   salt |-> last'.salt, local_salt |-> last'.local_salt]

NextSalt == EncryptKeep

InitSalt == Init /\ seed = <<0, 1>>

SpecSalt == InitSalt /\ [][NextSalt]_vars

----------------------------------------------------------------------------
(* Two threads, one encrypt_data call each.  A next() on a generator runs  *)
(* to its yield before another thread can enter the generator, so a draw   *)
(* is one step; the threads interleave between the draws.                  *)

\* lines 71-80
Enter(t, key, engine_id, engine_boots, engine_time, data) ==
    /\ pc[t] = "idle"
    /\ \E frame \in {encrypt_data_salt(SALTPOT, key, engine_id, engine_boots, engine_time, data)} :
        /\ SALTPOT' = frame.pot
        /\ draws' = draws \o frame.drawn
        /\ used' = Append(used, frame.local_salt)
        /\ loc' = [loc EXCEPT ![t] = frame]
    /\ pc' = [pc EXCEPT ![t] = "line81"]
    /\ UNCHANGED <<seed, last, rel, ncalls, held, pad_in, pad_out, pad_done>>

\* lines 81-86
Leave(t) ==
    /\ pc[t] = "line81"
    /\ \E r \in {encrypt_data_cipher(SALTPOT, loc[t])} :
       \E now \in {CallRecord("enc", loc[t].key, loc[t].engine_id, loc[t].engine_boots,
                               loc[t].engine_time, loc[t].data, r)} :
        /\ SALTPOT' = r.pot
        /\ draws' = draws \o SubSeq(r.drawn, 2, Len(r.drawn))
        /\ last' = now
        /\ rel' = Relation(last, now)
        /\ ncalls' = ncalls + 1
    /\ pc' = [pc EXCEPT ![t] = "returned"]
    /\ UNCHANGED <<seed, used, held, loc, pad_in, pad_out, pad_done>>

ConcPlainTexts == {Take(Text, n) : n \in {5, 8}}

NextConc ==
    \/ \E t \in Threads, key \in Keys, engine_id \in EngineIds, engine_boots \in EngineBoots,
          data \in ConcPlainTexts :
            Enter(t, key, engine_id, engine_boots, 0, data)
    \/ \E t \in Threads : Leave(t)

SpecConc == Init /\ [][NextConc]_vars

----------------------------------------------------------------------------
(* Properties *)

\* 0xFFFFFFFE
SALT_LAST == <<Limb - 1, Limb - 2>>

\* b = a + 1 on salt numbers
IsPlusOne(a, b) ==
    \/ a[2] < Limb - 1 /\ b = <<a[1], a[2] + 1>>
    \/ a[2] = Limb - 1 /\ b = <<a[1] + 1, 0>>

\* b follows a in the wrapping salt sequence
Follows(a, b) == IF a = SALT_LAST THEN b = SALT_ZERO ELSE IsPlusOne(a, b)

\* 0 <= v < 0xFFFFFFFF
InSaltRange(v) ==
    /\ v[1] \in 0..(Limb - 1)
    /\ v[2] \in 0..(Limb - 1)
    /\ v # SALT_LIMIT

\* this step is a call of encrypt_data / decrypt_data returning
EncryptReturns == ncalls' = ncalls + 1 /\ last'.op = "enc"
DecryptReturns == ncalls' = ncalls + 1 /\ last'.op = "dec"

\* C1: round trip.  When encrypt_data has returned (ciphertext, salt) for a
\* plaintext whose length is a multiple of 8, decrypt_data called next with the
\* same key, engine id, boots and time and with that salt and ciphertext
\* returns the plaintext.
C1_RoundTrip ==
    [][(/\ last.op = "enc"
        /\ last.err = ""
        /\ Len(last.data) % 8 = 0
        /\ DecryptReturns
        /\ last'.key = last.key
        /\ last'.engine_id = last.engine_id
        /\ last'.engine_boots = last.engine_boots
        /\ last'.engine_time = last.engine_time
        /\ last'.salt = last.salt
        /\ last'.data = last.out)
       => (last'.err = "" /\ last'.out = last.data)]_vars

C1_Witness ==
    /\ last.op = "dec"
    /\ rel = "roundtrip"
    /\ Len(last.data) = 16
    /\ last.out = Take(Text, 16)
    /\ last.out # last.data

\* C3 as claimed: two consecutive encrypt_data calls with the same key, engine
\* id, boots and plaintext (of any length, the empty one included) return
\* different salts and different ciphertexts.
C3_Original ==
    [][(/\ last.op = "enc"
        /\ EncryptReturns
        /\ last'.key = last.key
        /\ last'.engine_id = last.engine_id
        /\ last'.engine_boots = last.engine_boots
        /\ last'.data = last.data)
       => (last'.salt # last.salt /\ last'.out # last.out)]_vars

\* C3 amended: two consecutive encrypt_data calls with the same key, engine id,
\* boots and plaintext return different salts, and different ciphertexts when
\* the plaintext is not empty.
C3_Amended ==
    [][(/\ last.op = "enc"
        /\ EncryptReturns
        /\ last'.key = last.key
        /\ last'.engine_id = last.engine_id
        /\ last'.engine_boots = last.engine_boots
        /\ last'.data = last.data)
       => (/\ last'.salt # last.salt
           /\ last.data # <<>> => last'.out # last.out)]_vars

C3_Witness ==
    /\ last.op = "enc"
    /\ rel = "repeat"
    /\ last.data # <<>>
    /\ ncalls >= 2

\* C4: the first draw returns the seed; of two consecutive draws (a, b), b is
\* a + 1, or 0 when a is 0xFFFFFFFE; every value drawn is in [0, 0xFFFFFFFF).
C4_SaltSequence ==
    /\ seed # SALT_ZERO /\ InSaltRange(seed)
    /\ draws # <<>> => draws[1] = seed
    /\ \A i \in 1..(Len(draws) - 1) :
          IF draws[i] = SALT_LAST
          THEN draws[i + 1] = SALT_ZERO
          ELSE IsPlusOne(draws[i], draws[i + 1])
    /\ \A i \in 1..Len(draws) : InSaltRange(draws[i])

C4_Witness ==
    \E i \in 1..(Len(draws) - 2) :
        /\ draws[i] = SALT_LAST
        /\ draws[i + 1] = SALT_ZERO
        /\ draws[i + 2] = <<0, 1>>

\* C5: decrypt_data raises SnmpError exactly when len(data) % 8 # 0, and then
\* before the key is derived and before a cipher object is made or used.
C5_FormatError ==
    last.op = "dec" =>
        /\ Len(last.data) % 8 # 0 => (last.err = SnmpError /\ last.steps = <<>>)
        /\ Len(last.data) % 8 = 0 => last.err # SnmpError

C5_Witness ==
    /\ last.op = "dec"
    /\ Len(last.data) = 5
    /\ last.err = SnmpError

\* generator states decrypt_data could find SALTPOT in
SamplePots ==
    {SALTPOT, [started |-> FALSE, salt |-> seed], next(SALTPOT).pot,
     [started |-> TRUE, salt |-> SALT_LAST]}

\* the result of the last decrypt_data call does not depend on engine_boots,
\* engine_time or the generator, and the call hands the generator back as it was
C6_SameResult ==
    last.op = "dec" =>
        \A pot \in SamplePots, engine_boots \in EngineBoots, engine_time \in EngineTimes :
            \E r \in {decrypt_data(pot, last.key, last.engine_id, engine_boots, engine_time,
                                   last.salt, last.data)} :
                /\ r.out = last.out
                /\ r.err = last.err
                /\ r.pot = pot

\* a decrypt_data call leaves the generator alone; called again with the same
\* key, engine id, salt and data it returns the same
C6_Frame ==
    DecryptReturns =>
        /\ SALTPOT' = SALTPOT
        /\ draws' = draws
        /\ (/\ last.op = "dec"
            /\ last'.key = last.key
            /\ last'.engine_id = last.engine_id
            /\ last'.salt = last.salt
            /\ last'.data = last.data)
           => (last'.out = last.out /\ last'.err = last.err)

\* C6: decrypt_data is a pure function of key, engine id, salt and data: the
\* generator state, engine_boots, engine_time and the calls made before do not
\* change its result, and no decrypt_data call changes the generator.
C6_Pure == [](C6_SameResult) /\ [][C6_Frame]_vars

C6_Witness ==
    /\ last.op = "dec"
    /\ rel = "repeat"
    /\ last.err = ""
    /\ last.data # <<>>
    /\ draws # <<>>

\* C2: within one period of the counter (the generator has not come back to
\* its seed), no two encrypt_data calls made with the same engine_boots return
\* the same salt.
C2_SaltUnique ==
    (/\ last.op = "enc"
     /\ held.n # 0
     /\ held.n < ncalls
     /\ held.engine_boots = last.engine_boots
     /\ \A i \in 2..Len(draws) : draws[i] # seed)
    => held.salt # last.salt

\* Len rounded up to the next multiple of 8
RoundUp8(n) == ((n + 7) \div 8) * 8

\* C7: pad_packet(d) has the length of d rounded up to a multiple of 8, starts
\* with d, is zero after it, and is d itself when len(d) % 8 = 0;
\* pad_packet(b"hello") = b"hello\0\0\0", pad_packet(b"hello123") = b"hello123".
C7_Padding ==
    pad_done =>
        /\ Len(pad_out) = RoundUp8(Len(pad_in))
        /\ Take(pad_out, Len(pad_in)) = pad_in
        /\ \A i \in (Len(pad_in) + 1)..Len(pad_out) : pad_out[i] = 0
        /\ Len(pad_in) % 8 = 0 => pad_out = pad_in
        /\ pad_in = <<104, 101, 108, 108, 111>>
              => pad_out = <<104, 101, 108, 108, 111, 0, 0, 0>>
        /\ pad_in = <<104, 101, 108, 108, 111, 49, 50, 51>>
              => pad_out = <<104, 101, 108, 108, 111, 49, 50, 51>>

C7_Witness ==
    /\ pad_done
    /\ pad_in = <<104, 101, 108, 108, 111>>
    /\ Len(pad_out) = 8

\* C8: the salt encrypt_data returns is the 8 bytes
\* bigEndian32(engine_boots & 0xFF) ++ bigEndian32(local_salt & 0xFF), with
\* local_salt the first value the call drew; bytes 0-2 and 4-6 are zero; the
\* IV given to the cipher is that salt XOR the second half of the localized key.
C8_SaltEncoding ==
    (last.op = "enc" /\ last.err = "") =>
        /\ Len(last.salt) = 8
        /\ last.salt = <<0, 0, 0, last.engine_boots % 256, 0, 0, 0, last.local_salt[2] % 256>>
        /\ Len(last.drawn) >= 1
        /\ last.local_salt = last.drawn[1]
        /\ last.local_salt = draws[Len(draws) - Len(last.drawn) + 1]
        /\ \E pre_iv \in {SubSeq(hasher(last.key, last.engine_id), 9, 16)} :
           \E des_key \in {SubSeq(hasher(last.key, last.engine_id), 1, 8)} :
              /\ last.init_vector = [i \in 1..8 |-> XorByte(last.salt[i], pre_iv[i])]
              /\ last.out = CbcEncrypt(des_key, last.init_vector, last.padded)

C8_Witness ==
    /\ last.op = "enc"
    /\ last.engine_boots = 258
    /\ last.local_salt = <<0, 256>>
    /\ last.salt = <<0, 0, 0, 2, 0, 0, 0, 0>>

\* b = a + 2 on salt numbers
IsPlusTwo(a, b) == \E m \in {<<a[1], a[2] + 1>>, <<a[1] + 1, 0>>} : IsPlusOne(a, m) /\ IsPlusOne(m, b)

\* C9: every encrypt_data call draws two values, uses the first and discards
\* the second, so the next encrypt_data call uses the value two steps further
\* in the wrapping sequence (s + 2 away from the wrap), whatever its arguments.
C9_TwoDraws ==
    /\ Len(draws) = 2 * Len(used)
    /\ last.op = "enc" => Len(last.drawn) = 2
    /\ \A i \in 1..Len(used) : used[i] = draws[2 * i - 1]
    /\ \A i \in 1..(Len(used) - 1) :
          /\ \E m \in {draws[2 * i]} : Follows(used[i], m) /\ Follows(m, used[i + 1])
          /\ (used[i] # SALT_LAST /\ draws[2 * i] # SALT_LAST) => IsPlusTwo(used[i], used[i + 1])

C9_Witness ==
    /\ ncalls = 3
    /\ Len(used) = 2
    /\ last.op = "enc"
    /\ rel = "other"
    /\ used[1] = <<0, 254>>
    /\ used[2] = <<0, 256>>

\* the orders in which two calls can make their two draws each
Interleavings ==
    {sched \in [1..4 -> Threads] : \A t \in Threads : Cardinality({i \in 1..4 : sched[i] = t}) = 2}

\* what thread t draws first when the draws are made in the order sched
RECURSIVE FirstDraw(_, _, _, _)
FirstDraw(pot, sched, i, t) ==
    IF sched[i] = t
    THEN next(pot).value
    ELSE FirstDraw(next(pot).pot, sched, i + 1, t)

\* C10 as claimed: two encrypt_data calls that start now can interleave their
\* draws so that both get the same value from the salt sequence.
C10_Original ==
    (\A t \in Threads : pc[t] = "idle") =>
        \E sched \in Interleavings :
            FirstDraw(SALTPOT, sched, 1, 1) = FirstDraw(SALTPOT, sched, 1, 2)

\* C10 amended: however two encrypt_data calls interleave their draws, they get
\* different values from the salt sequence, and different salts and IVs when
\* made with the same key, engine id and engine_boots.
C10_Amended ==
    \A t \in Threads, u \in Threads :
        (t # u /\ pc[t] # "idle" /\ pc[u] # "idle") =>
            /\ loc[t].local_salt # loc[u].local_salt
            /\ (/\ loc[t].key = loc[u].key
                /\ loc[t].engine_id = loc[u].engine_id
                /\ loc[t].engine_boots = loc[u].engine_boots)
               => (/\ loc[t].salt # loc[u].salt
                   /\ loc[t].init_vector # loc[u].init_vector)

C10_Witness ==
    /\ pc[1] = "line81"
    /\ pc[2] = "line81"
    /\ loc[1].key = loc[2].key
    /\ loc[1].engine_id = loc[2].engine_id
    /\ loc[1].engine_boots = loc[2].engine_boots
    /\ loc[1].data = loc[2].data
    /\ loc[2].local_salt = SALT_LAST
    /\ loc[1].local_salt = SALT_ZERO

====
